---- MODULE Spec2Model ----
(***************************************************************************)
(* custom-ingestion-worker: the sliding-window RateLimiter, the Validator  *)
(* with its error log and rejection counter, and the SampleService that    *)
(* drives each record through parse, validation, rate check and insert.    *)
(*                                                                         *)
(* Time is counted in whole seconds.  A time.Time is an integer; ZeroTime  *)
(* is the zero value of time.Time (January 1, year 1, 00:00:00 UTC).       *)
(*                                                                         *)
(* The specifications share the variables:                                 *)
(*   SpecRL    calls of RateLimiter.IsAllowed on one RateLimiter;          *)
(*   SpecRem   IsAllowed and GetRemainingRequests as the clock advances;   *)
(*   SpecVal   calls of Validator.ValidateSample on one Validator;         *)
(*   Spec      one SampleService processing batches sequentially;          *)
(*   SpecConc  goroutines sharing one SampleService, with the statements   *)
(*             of IsAllowed and writeErrorLog interleaved.                 *)
(*   FairSpecConc  the goroutines of SpecConc under fair scheduling;       *)
(*   SpecLog   goroutines calling WriteErrorLog on one shared Validator.   *)
(***************************************************************************)
EXTENDS Integers, Sequences, FiniteSets, TLC

VARIABLES
    requestsPerMinute,  \* RateLimiter.requestsPerMinute
    requests,           \* RateLimiter.requests: map customerID -> []time.Time
    mu,                 \* RateLimiter.mu: the goroutine holding the lock, or NoOwner
    errorCount,         \* Validator.errorCount
    errorLog,           \* the entries appended to error.log
    samples,            \* the sink: the samples InsertSample stored, in order
    now,                \* the wall clock read by time.Now()
    history,            \* ghost: the IsAllowed calls made, [key, at, ok, wall], in order
    batch,              \* the []CustomSample of the running ProcessSamples call
    idx,                \* number of records of batch the loop has gone through
    successCount,       \* ProcessSamples' local successCount
    attempted,          \* ghost: the records handed to ProcessSample in this call
    last,               \* ghost: what the last ProcessSample call did
    result,             \* the last return of ProcessSamples / ProcessSamplesFile
    nrecords,           \* ghost: number of records processed over all batches
    vcall,              \* ghost: the last ValidateSample call
    remaining,          \* ghost: the last GetRemainingRequests call and its result
    pc,                 \* SpecConc: position of each goroutine
    loc                 \* SpecConc: locals of each goroutine

vars == <<requestsPerMinute, requests, mu, errorCount, errorLog, samples, now,
          history, batch, idx, successCount, attempted, last, result,
          nrecords, vcall, remaining, pc, loc>>

(***************************************************************************)
(* Program constants and the bounds of the model.                          *)
(***************************************************************************)
\* time.Minute in seconds: the length of the sliding window.
Window == 60

\* The zero value of time.Time.
ZeroTime == 0

\* Largest limit a RateLimiter is constructed with.
MaxLimit == 2

\* Largest number of IsAllowed calls in a behaviour of SpecRL.
MaxCalls == 4

\* Largest number of ValidateSample calls in a behaviour of SpecVal.
MaxValidations == 2

\* The readings of the wall clock (seconds after the start).
Clock == {1, 2}

\* Largest number of records Spec processes, over all its batches.
MaxRecords == 2

\* Number of records in the batch of each goroutine of SpecConc.
MaxPerWorker == 1

\* Customer keys of SpecRL.
Keys == {"c1", "c2"}

\* Request timestamps of SpecRL (seconds after some base instant T = 1000).
Instants == {1000, 1001, 1059, 1060, 1061, 1120}

Limits == 0..MaxLimit

Max(a, b) == IF a >= b THEN a ELSE b

(***************************************************************************)
(* RateLimiter                                                             *)
(***************************************************************************)
\* m[k] = v, as the Go map assignment m[k] = v.
MapPut(m, k, v) == [x \in DOMAIN m \cup {k} |-> IF x = k THEN v ELSE m[x]]

\* NewRateLimiter: make(map[string][]time.Time).
EmptyMap == [x \in {} |-> <<>>]

\* The window test with t.After(windowStart) alone.
InWindowExclusive(t, windowStart) == t > windowStart

\* t.After(windowStart) || t.Equal(windowStart)
InWindow(t, windowStart) == t >= windowStart

\* createdAt.Add(-1 * time.Minute)
WindowStart(createdAt) == createdAt - Window

\* The loop of IsAllowed keeping every stored timestamp.
ValidRequestsNoPrune(times, createdAt) == times

\* The loop of IsAllowed: the stored timestamps that are in the window.
ValidRequests(times, createdAt) ==
    SelectSeq(times, LAMBDA t : InWindow(t, WindowStart(createdAt)))

\* IsAllowed sending a key it has not seen through the limit check.
IsAllowedNoFastPath(reqs, n, customerID, createdAt) ==
    LET times == IF customerID \in DOMAIN reqs THEN reqs[customerID] ELSE <<>>
        validRequests == ValidRequests(times, createdAt)
    IN  IF Len(validRequests) < n
        THEN [ok |-> TRUE,
              requests |-> MapPut(reqs, customerID, Append(validRequests, createdAt))]
        ELSE [ok |-> FALSE,
              requests |-> MapPut(reqs, customerID, validRequests)]

\* IsAllowed storing the timestamp of a denied request as well.
IsAllowedStoringDenied(reqs, n, customerID, createdAt) ==
    IF customerID \notin DOMAIN reqs
    THEN [ok |-> TRUE, requests |-> MapPut(reqs, customerID, <<createdAt>>)]
    ELSE LET validRequests == ValidRequests(reqs[customerID], createdAt)
         IN  [ok |-> Len(validRequests) < n,
              requests |-> MapPut(reqs, customerID,
                                  Append(validRequests, createdAt))]

\* IsAllowed making a new map for a key it has not seen, which drops the
\* histories of the other keys.
IsAllowedResetting(reqs, n, customerID, createdAt) ==
    IF customerID \notin DOMAIN reqs
    THEN [ok |-> TRUE, requests |-> MapPut(EmptyMap, customerID, <<createdAt>>)]
    ELSE LET validRequests == ValidRequests(reqs[customerID], createdAt)
         IN  IF Len(validRequests) < n
             THEN [ok |-> TRUE,
                   requests |-> MapPut(reqs, customerID,
                                       Append(validRequests, createdAt))]
             ELSE [ok |-> FALSE,
                   requests |-> MapPut(reqs, customerID, validRequests)]

\* IsAllowed(customerID, createdAt) on the map reqs of a limiter of limit n:
\* the decision and the map it leaves.
IsAllowed(reqs, n, customerID, createdAt) ==
    IF customerID \notin DOMAIN reqs
    THEN [ok |-> TRUE, requests |-> MapPut(reqs, customerID, <<createdAt>>)]
    ELSE LET validRequests == ValidRequests(reqs[customerID], createdAt)
         IN  IF Len(validRequests) < n
             THEN [ok |-> TRUE,
                   requests |-> MapPut(reqs, customerID,
                                       Append(validRequests, createdAt))]
             ELSE [ok |-> FALSE,
                   requests |-> MapPut(reqs, customerID, validRequests)]

\* The loop of GetRemainingRequests: the stored timestamps counted as in the
\* window that ends at clock = time.Now().
ValidCount(times, clock) ==
    Len(SelectSeq(times, LAMBDA t : InWindow(t, WindowStart(clock))))

\* GetRemainingRequests storing the pruned list, and an empty list for a key
\* it has not seen.
GetRemainingRequestsPruning(reqs, n, customerID, clock) ==
    IF customerID \in DOMAIN reqs
    THEN [value |-> n - ValidCount(reqs[customerID], clock),
          requests |-> MapPut(reqs, customerID,
                              ValidRequests(reqs[customerID], clock))]
    ELSE [value |-> n, requests |-> MapPut(reqs, customerID, <<>>)]

\* GetRemainingRequests(customerID) on the map reqs of a limiter of limit n,
\* with time.Now() = clock: the value returned and the map it leaves.
GetRemainingRequests(reqs, n, customerID, clock) ==
    IF customerID \in DOMAIN reqs
    THEN [value |-> n - ValidCount(reqs[customerID], clock), requests |-> reqs]
    ELSE [value |-> n, requests |-> reqs]

(***************************************************************************)
(* Validator                                                               *)
(*                                                                         *)
(* A types.Sample is a record [CustomerID, Email, Name, CreatedAt,         *)
(* UpdatedAt].  An email is the sequence of its characters.  A Go error is *)
(* its message, or Nil.                                                    *)
(***************************************************************************)
Nil == "<nil>"

Lower == {"a", "b", "c", "d", "e", "f", "g", "h", "i", "j", "k", "l", "m",
          "n", "o", "p", "q", "r", "s", "t", "u", "v", "w", "x", "y", "z"}
Digit == {"0", "1", "2", "3", "4", "5", "6", "7", "8", "9"}
\* [a-z0-9._%+\-]
LocalChars == Lower \cup Digit \cup {".", "_", "%", "+", "-"}
\* [a-z0-9.\-]
DomainChars == Lower \cup Digit \cup {".", "-"}

\* emailRegex.MatchString(email) for ^[a-z0-9._%+\-]+@[a-z0-9.\-]+\.[a-z]{2,4}$ :
\* email[a] is the @ and email[d] the dot before the top-level label.
isValidEmail(email) ==
    \E a \in 1..Len(email), d \in 1..Len(email) :
        /\ a >= 2
        /\ \A i \in 1..(a - 1) : email[i] \in LocalChars
        /\ email[a] = "@"
        /\ d >= a + 2
        /\ \A i \in (a + 1)..(d - 1) : email[i] \in DomainChars
        /\ email[d] = "."
        /\ Len(email) - d >= 2
        /\ Len(email) - d <= 4
        /\ \A i \in (d + 1)..Len(email) : email[i] \in Lower

\* sample.CreatedAt.IsZero(), sample.UpdatedAt.IsZero()
IsZero(t) == t = ZeroTime

\* The outcomes of the two file operations of writeErrorLog.
LogIO == {"ok", "open fails", "write fails"}

\* The entry writeErrorLog formats: status, customerId, reason, createdAt.
ErrorEntry(customerID, reason, clock) ==
    [status |-> "error", customerId |-> customerID, reason |-> reason,
     createdAt |-> clock]

\* writeErrorLog(customerID, reason) on a Validator v = [errorCount, errorLog],
\* with the file operations ending as io and time.Now() = clock:
\* the error returned and the Validator it leaves.
writeErrorLog(v, customerID, reason, io, clock) ==
    IF io = "open fails"
    THEN [err |-> "failed to open error log", v |-> v]
    ELSE IF io = "write fails"
    THEN [err |-> "failed to write to error log", v |-> v]
    ELSE [err |-> Nil,
          v |-> [errorCount |-> v.errorCount + 1,
                 errorLog |-> Append(v.errorLog,
                                     ErrorEntry(customerID, reason, clock))]]

\* ValidateSample with the name checked before the email.
ValidationReasonNameFirst(sample) ==
    IF sample.CustomerID = "" THEN "customer_id is required"
    ELSE IF sample.Name = "" THEN "name is required"
    ELSE IF ~isValidEmail(sample.Email) THEN "invalid email format"
    ELSE IF IsZero(sample.CreatedAt) THEN "created_at is required"
    ELSE Nil

\* The reason ValidateSample rejects sample with, or Nil: the four checks in
\* the order of the code.
ValidationReason(sample) ==
    IF sample.CustomerID = "" THEN "customer_id is required"
    ELSE IF ~isValidEmail(sample.Email) THEN "invalid email format"
    ELSE IF sample.Name = "" THEN "name is required"
    ELSE IF IsZero(sample.CreatedAt) THEN "created_at is required"
    ELSE Nil

\* The parameter of ValidateSample when it returns nil: UpdatedAt defaulted.
\* The parameter is a copy (types.Sample is passed by value).
DefaultUpdatedAt(sample, clock) ==
    IF IsZero(sample.UpdatedAt) THEN [sample EXCEPT !.UpdatedAt = clock] ELSE sample

\* v.ValidateSample(sample): the error returned, the Validator it leaves, the
\* callee's copy of the sample at return, and the caller's sample, which the
\* call cannot change.  The error writeErrorLog returns is dropped.
ValidateSample(v, sample, io, clock) ==
    LET reason == ValidationReason(sample)
    IN  IF reason # Nil
        THEN [err |-> reason,
              v |-> writeErrorLog(v, sample.CustomerID, reason, io, clock).v,
              param |-> sample,
              sample |-> sample]
        ELSE [err |-> Nil,
              v |-> v,
              param |-> DefaultUpdatedAt(sample, clock),
              sample |-> sample]

\* The Validator as a value.
TheValidator == [errorCount |-> errorCount, errorLog |-> errorLog]

(***************************************************************************)
(* SampleService                                                           *)
(*                                                                         *)
(* A CustomSample is a record [CustomerID, Email, Name, CreatedAt] whose   *)
(* CreatedAt is the raw string of the JSON file.                           *)
(***************************************************************************)
\* time.Parse(time.RFC3339, raw) on the raw strings of the model: the instant
\* in seconds, counted from 1000 s before 2024-03-26T12:00:00Z; the year-1
\* instant is the zero time.Time.  Every other string fails to parse.
ParseTable ==
    [raw \in {"2024-03-26T12:00:00Z", "2024-03-26T17:30:30+05:30",
              "2024-03-26T12:01:01Z", "0001-01-01T00:00:00Z"} |->
        CASE raw = "2024-03-26T12:00:00Z" -> 1000
          [] raw = "2024-03-26T17:30:30+05:30" -> 1030
          [] raw = "2024-03-26T12:01:01Z" -> 1061
          [] raw = "0001-01-01T00:00:00Z" -> ZeroTime]

\* time.Parse giving the zero time.Time, and no error, for a string it cannot
\* parse.
ParseTimeLenient(raw) ==
    IF raw \in DOMAIN ParseTable
    THEN [err |-> Nil, t |-> ParseTable[raw]]
    ELSE [err |-> Nil, t |-> ZeroTime]

ParseTime(raw) ==
    IF raw \in DOMAIN ParseTable
    THEN [err |-> Nil, t |-> ParseTable[raw]]
    ELSE [err |-> "parsing time: cannot parse", t |-> ZeroTime]

\* The errors InsertSample may return: nil, or the sink's reason.
InsertErrors == {Nil, "connection refused"}

\* The types.Sample ProcessSample builds: UpdatedAt is left at its zero value.
NewSample(cs, createdAt) ==
    [CustomerID |-> cs.CustomerID, Email |-> cs.Email, Name |-> cs.Name,
     CreatedAt |-> createdAt, UpdatedAt |-> ZeroTime]

\* ProcessSample without the return after a failed validation: the record goes
\* on to the rate check and the insert.
ProcessSampleNoReturn(st, n, cs, io, dbErr, clock) ==
    LET parsed == ParseTime(cs.CreatedAt)
        sample == NewSample(cs, parsed.t)
        val == ValidateSample(st.v, sample, io, clock)
        rl == IsAllowed(st.requests, n, val.sample.CustomerID, val.sample.CreatedAt)
    IN  IF parsed.err # Nil
        THEN [err |-> parsed.err,
              st |-> [st EXCEPT !.v =
                         writeErrorLog(st.v, cs.CustomerID,
                                       "invalid date format: " \o cs.CreatedAt,
                                       io, clock).v],
              calls |-> <<"time.Parse", "WriteErrorLog">>,
              allowed |-> {}]
        ELSE IF ~rl.ok
        THEN [err |-> "rate limit exceeded",
              st |-> [st EXCEPT !.requests = rl.requests,
                                !.v = writeErrorLog(val.v, val.sample.CustomerID,
                                                    "rate limit exceeded",
                                                    io, clock).v],
              calls |-> <<"time.Parse", "ValidateSample", "IsAllowed",
                          "WriteErrorLog">>,
              allowed |-> {FALSE}]
        ELSE [err |-> dbErr,
              st |-> [st EXCEPT !.requests = rl.requests,
                                !.v = val.v,
                                !.samples = IF dbErr = Nil
                                            THEN Append(st.samples, val.sample)
                                            ELSE st.samples],
              calls |-> <<"time.Parse", "ValidateSample", "IsAllowed",
                          "InsertSample">>,
              allowed |-> {TRUE}]

\* ProcessSample giving the admission back when InsertSample fails: the
\* limiter's map is left as it was before IsAllowed.
ProcessSampleRollback(st, n, cs, io, dbErr, clock) ==
    LET parsed == ParseTime(cs.CreatedAt)
        sample == NewSample(cs, parsed.t)
        val == ValidateSample(st.v, sample, io, clock)
        rl == IsAllowed(st.requests, n, val.sample.CustomerID, val.sample.CreatedAt)
    IN  IF parsed.err # Nil
        THEN [err |-> parsed.err,
              st |-> [st EXCEPT !.v =
                         writeErrorLog(st.v, cs.CustomerID,
                                       "invalid date format: " \o cs.CreatedAt,
                                       io, clock).v],
              calls |-> <<"time.Parse", "WriteErrorLog">>,
              allowed |-> {}]
        ELSE IF val.err # Nil
        THEN [err |-> val.err,
              st |-> [st EXCEPT !.v = val.v],
              calls |-> <<"time.Parse", "ValidateSample">>,
              allowed |-> {}]
        ELSE IF ~rl.ok
        THEN [err |-> "rate limit exceeded",
              st |-> [st EXCEPT !.requests = rl.requests,
                                !.v = writeErrorLog(val.v, val.sample.CustomerID,
                                                    "rate limit exceeded",
                                                    io, clock).v],
              calls |-> <<"time.Parse", "ValidateSample", "IsAllowed",
                          "WriteErrorLog">>,
              allowed |-> {FALSE}]
        ELSE IF dbErr # Nil
        THEN [err |-> dbErr,
              st |-> [st EXCEPT !.v = writeErrorLog(val.v, val.sample.CustomerID,
                                      "failed to insert: " \o dbErr, io, clock).v],
              calls |-> <<"time.Parse", "ValidateSample", "IsAllowed",
                          "InsertSample", "WriteErrorLog">>,
              allowed |-> {TRUE}]
        ELSE [err |-> Nil,
              st |-> [st EXCEPT !.requests = rl.requests,
                                !.samples = Append(st.samples, val.sample)],
              calls |-> <<"time.Parse", "ValidateSample", "IsAllowed",
                          "InsertSample">>,
              allowed |-> {TRUE}]

\* s.ProcessSample(cs) on the service state st = [v, requests, samples], with
\* the log's file operations ending as io, the sink answering dbErr and
\* time.Now() = clock: the error returned, the state it leaves, the calls it
\* made in order, the decision of IsAllowed if it was called.
ProcessSample(st, n, cs, io, dbErr, clock) ==
    LET parsed == ParseTime(cs.CreatedAt)
        sample == NewSample(cs, parsed.t)
        val == ValidateSample(st.v, sample, io, clock)
        rl == IsAllowed(st.requests, n, val.sample.CustomerID, val.sample.CreatedAt)
    IN  IF parsed.err # Nil
        THEN [err |-> parsed.err,
              st |-> [st EXCEPT !.v =
                         writeErrorLog(st.v, cs.CustomerID,
                                       "invalid date format: " \o cs.CreatedAt,
                                       io, clock).v],
              calls |-> <<"time.Parse", "WriteErrorLog">>,
              allowed |-> {}]
        ELSE IF val.err # Nil
        THEN [err |-> val.err,
              st |-> [st EXCEPT !.v = val.v],
              calls |-> <<"time.Parse", "ValidateSample">>,
              allowed |-> {}]
        ELSE IF ~rl.ok
        THEN [err |-> "rate limit exceeded",
              st |-> [st EXCEPT !.requests = rl.requests,
                                !.v = writeErrorLog(val.v, val.sample.CustomerID,
                                                    "rate limit exceeded",
                                                    io, clock).v],
              calls |-> <<"time.Parse", "ValidateSample", "IsAllowed",
                          "WriteErrorLog">>,
              allowed |-> {FALSE}]
        ELSE IF dbErr # Nil
        THEN [err |-> dbErr,
              st |-> [st EXCEPT !.requests = rl.requests,
                                !.v = writeErrorLog(val.v, val.sample.CustomerID,
                                                    "failed to insert: " \o dbErr,
                                                    io, clock).v],
              calls |-> <<"time.Parse", "ValidateSample", "IsAllowed",
                          "InsertSample", "WriteErrorLog">>,
              allowed |-> {TRUE}]
        ELSE [err |-> Nil,
              st |-> [st EXCEPT !.requests = rl.requests,
                                !.samples = Append(st.samples, val.sample)],
              calls |-> <<"time.Parse", "ValidateSample", "IsAllowed",
                          "InsertSample">>,
              allowed |-> {TRUE}]

\* The loop of ProcessSamples leaving the batch at the first record that fails.
NextIndexAbort(i, err, len) == IF err = Nil THEN i + 1 ELSE len

\* The for loop of ProcessSamples: the index after the record at index i was
\* processed with error err, in a batch of len records.
NextIndex(i, err, len) == i + 1

\* successCount after a ProcessSample that returned err.
NextSuccessCount(count, err) == IF err = Nil THEN count + 1 ELSE count

\* The ProcessResult with the Validator's counter left unread.
ProcessResultUncounted(count, v) == [SuccessCount |-> count, ErrorCount |-> 0]

\* The ProcessResult ProcessSamples returns.
ProcessResult(count, v) == [SuccessCount |-> count, ErrorCount |-> v.errorCount]

(***************************************************************************)
(* Values that stand for "nothing yet" in the ghost and result variables.  *)
(***************************************************************************)
NoOwner == "none"
NoCall == [stage |-> "none"]
NoResult == [returned |-> FALSE]
NoGoroutines == [w \in {} |-> "idle"]

(***************************************************************************)
(* SpecRL: a RateLimiter of any limit 0..MaxLimit receiving IsAllowed      *)
(* calls for any key with timestamps in any order.                         *)
(***************************************************************************)
svcIdle ==
    /\ batch = <<>> /\ idx = 0 /\ successCount = 0 /\ attempted = <<>>
    /\ last = NoCall /\ result = NoResult /\ nrecords = 0

InitCommon ==
    /\ requestsPerMinute \in Limits
    /\ requests = EmptyMap
    /\ mu = NoOwner
    /\ errorCount = 0
    /\ errorLog = <<>>
    /\ samples = <<>>
    /\ now = 1
    /\ history = <<>>
    /\ svcIdle
    /\ vcall = NoCall
    /\ remaining = NoCall

InitRL == InitCommon /\ pc = NoGoroutines /\ loc = NoGoroutines

\* IsAllowed measuring its window from time.Now() in place of createdAt.
IsAllowedCallWallClock(customerID, createdAt) ==
    LET r == IsAllowed(requests, requestsPerMinute, customerID, now)
    IN  /\ Len(history) < MaxCalls
        /\ mu = NoOwner
        /\ requests' = r.requests
        /\ history' = Append(history,
                             [key |-> customerID, at |-> createdAt, ok |-> r.ok,
                              wall |-> now])
        /\ UNCHANGED <<requestsPerMinute, mu, errorCount, errorLog, samples, now,
                       batch, idx, successCount, attempted, last, result,
                       nrecords, vcall, remaining, pc, loc>>

\* One call r.IsAllowed(customerID, createdAt), under the lock from entry to return.
IsAllowedCall(customerID, createdAt) ==
    LET r == IsAllowed(requests, requestsPerMinute, customerID, createdAt)
    IN  /\ Len(history) < MaxCalls
        /\ mu = NoOwner
        /\ requests' = r.requests
        /\ history' = Append(history,
                             [key |-> customerID, at |-> createdAt, ok |-> r.ok,
                              wall |-> now])
        /\ UNCHANGED <<requestsPerMinute, mu, errorCount, errorLog, samples, now,
                       batch, idx, successCount, attempted, last, result,
                       nrecords, vcall, remaining, pc, loc>>

NextRL == \E k \in Keys, t \in Instants : IsAllowedCall(k, t)

SpecRL == InitRL /\ [][NextRL]_vars

\* ghost readings of history
CallsOf(k) == SelectSeq(history, LAMBDA c : c.key = k)
AcceptedOf(k) == SelectSeq(history, LAMBDA c : c.key = k /\ c.ok)
CountIn(calls, lo, hi) == Len(SelectSeq(calls, LAMBDA c : lo <= c.at /\ c.at <= hi))
SeqMin(calls) == CHOOSE m \in {calls[i].at : i \in 1..Len(calls)} :
                    \A i \in 1..Len(calls) : m <= calls[i].at
SeqMax(calls) == CHOOSE m \in {calls[i].at : i \in 1..Len(calls)} :
                    \A i \in 1..Len(calls) : m >= calls[i].at

(***************************************************************************)
(* C1: for every key and every limit N (stated here for N >= 1; N = 0 is   *)
(* the case of C2), whatever the order of the timestamps supplied, the     *)
(* timestamps for which IsAllowed returned true never include more than N  *)
(* that lie within one 60-second interval [s, s + 60].                     *)
(***************************************************************************)
C1_AtMostNPerWindow ==
    requestsPerMinute >= 1 =>
        \A k \in Keys : \A i \in 1..Len(AcceptedOf(k)) :
            CountIn(AcceptedOf(k), AcceptedOf(k)[i].at, AcceptedOf(k)[i].at + Window)
                <= requestsPerMinute

(***************************************************************************)
(* C2: on a fresh RateLimiter(N), for every N including 0 and 1, when the  *)
(* first N+1 calls for a key carry timestamps that all lie within one      *)
(* 60-second window, the first N return true and the (N+1)-th returns      *)
(* false.                                                                  *)
(***************************************************************************)
C2_FirstNThenDenied ==
    \A k \in Keys :
        LET calls == CallsOf(k)
            n == requestsPerMinute
        IN  Len(calls) >= n + 1 /\
            SeqMax(SubSeq(calls, 1, n + 1)) - SeqMin(SubSeq(calls, 1, n + 1)) <= Window
            => /\ \A i \in 1..n : calls[i].ok
               /\ ~calls[n + 1].ok

\* A fresh RateLimiter(n) receiving the calls of the sequence calls, one
\* after the other: the map it ends with and the decisions it returned.
RECURSIVE Replay(_, _)
Replay(calls, n) ==
    IF calls = <<>>
    THEN [requests |-> EmptyMap, oks |-> <<>>]
    ELSE LET prev == Replay(SubSeq(calls, 1, Len(calls) - 1), n)
             c == calls[Len(calls)]
             r == IsAllowed(prev.requests, n, c.key, c.at)
         IN  [requests |-> r.requests, oks |-> Append(prev.oks, r.ok)]

(***************************************************************************)
(* C13: for every key and every limit N >= 1, when the IsAllowed calls for *)
(* one key carry timestamps spaced exactly 60 seconds apart, every one of  *)
(* them returns true.                                                      *)
(***************************************************************************)
C13_SixtyApartAllowed ==
    requestsPerMinute >= 1 =>
        \A k \in Keys :
            LET calls == CallsOf(k)
            IN  (\A i \in 1..(Len(calls) - 1) : calls[i + 1].at = calls[i].at + Window)
                => \A i \in 1..Len(calls) : calls[i].ok

(***************************************************************************)
(* C17: immediately after every IsAllowed(k, at) call, every timestamp     *)
(* stored for key k lies in [at - 60, at], also when at is older than      *)
(* timestamps already stored.  Stated for the limits N >= 1.               *)
(***************************************************************************)
C17_StoredWithinWindow ==
    requestsPerMinute >= 1 /\ history # <<>> =>
        LET c == history[Len(history)]
        IN  \A i \in 1..Len(requests[c.key]) :
                /\ c.at - Window <= requests[c.key][i]
                /\ requests[c.key][i] <= c.at

(***************************************************************************)
(* C20: rate limiting is per key.  For every key, the stored history and   *)
(* the decisions of its calls are those of a fresh limiter that received   *)
(* the calls for that key alone: a call for another key neither changes    *)
(* the history of the key nor any of its decisions, so a key whose limit   *)
(* is exhausted never causes a denial for another key.                     *)
(***************************************************************************)
C20_PerKey ==
    \A k \in Keys :
        LET r == Replay(CallsOf(k), requestsPerMinute)
        IN  /\ k \in DOMAIN requests <=> k \in DOMAIN r.requests
            /\ k \in DOMAIN requests => requests[k] = r.requests[k]
            /\ \A i \in 1..Len(CallsOf(k)) : CallsOf(k)[i].ok = r.oks[i]

\* A call for one key was denied, and a later call for the other key, with
\* the same timestamp, was allowed; then the first key was called again.
C20_Witness ==
    /\ requestsPerMinute >= 1
    /\ \E i \in 1..Len(history), j \in 1..Len(history) :
          /\ i < j /\ j < Len(history)
          /\ history[i].key # history[j].key
          /\ history[i].at = history[j].at
          /\ ~history[i].ok
          /\ history[j].ok
          /\ history[Len(history)].key = history[i].key

\* ghost readings of one IsAllowed step: the call it made, and the timestamps
\* stored for its key before the step that are not older than 60 s at the call.
Called == history' # history
ThisCall == history'[Len(history')]
Kept == SelectSeq(requests[ThisCall.key], LAMBDA t : t >= ThisCall.at - Window)
Sorted(times) == \A i \in 1..(Len(times) - 1) : times[i] <= times[i + 1]
Occurrences(times, t) == Cardinality({i \in 1..Len(times) : times[i] = t})

C24_DeniedNotStored ==
    /\ [][Called /\ ~ThisCall.ok
          => /\ requests'[ThisCall.key] = Kept
             /\ Occurrences(requests'[ThisCall.key], ThisCall.at)
                  = Occurrences(requests[ThisCall.key], ThisCall.at)]_vars
    /\ [](\A k \in DOMAIN requests : \A t \in Instants :
             Occurrences(requests[k], t)
               <= Cardinality({i \in 1..Len(history) :
                                 /\ history[i].key = k
                                 /\ history[i].at = t
                                 /\ history[i].ok}))

\* A call was denied and, within 60 s of its timestamp, a later call for the
\* same key was allowed under limit 1: the denied timestamp did not count.
C24_Witness ==
    /\ requestsPerMinute = 1
    /\ \E i \in 1..Len(history), j \in 1..Len(history) :
          /\ i < j
          /\ history[i].key = history[j].key
          /\ ~history[i].ok
          /\ history[j].ok
          /\ history[j].at >= history[i].at
          /\ history[j].at - history[i].at <= Window

RemInstants == {1000, 1001}

\* The later readings of the wall clock in SpecRem: 60 s and 61 s after 1000.
WallInstants == {1060, 1061}

InitRem == InitCommon /\ pc = NoGoroutines /\ loc = NoGoroutines

\* One call r.GetRemainingRequests(customerID), under the read lock.
GetRemainingRequestsCall(customerID) ==
    LET r == GetRemainingRequests(requests, requestsPerMinute, customerID, now)
    IN  /\ mu = NoOwner
        /\ requests' = r.requests
        /\ remaining' = [stage |-> "returned", key |-> customerID,
                         value |-> r.value, wall |-> now, calls |-> Len(history)]
        /\ UNCHANGED <<requestsPerMinute, mu, errorCount, errorLog, samples, now,
                       history, batch, idx, successCount, attempted, last, result,
                       nrecords, vcall, pc, loc>>

\* Real time passes: the wall clock reaches t.
Elapse(t) ==
    /\ now < t
    /\ now' = t
    /\ UNCHANGED <<requestsPerMinute, requests, mu, errorCount, errorLog, samples,
                   history, batch, idx, successCount, attempted, last, result,
                   nrecords, vcall, remaining, pc, loc>>

NextRem ==
    \/ \E k \in Keys, t \in RemInstants : IsAllowedCall(k, t)
    \/ \E k \in Keys : GetRemainingRequestsCall(k)
    \/ \E t \in WallInstants : Elapse(t)

SpecRem == InitRem /\ [][NextRem]_vars

(***************************************************************************)
(* C14: GetRemainingRequests is read-only: for every key, seen or unseen,  *)
(* a call leaves the map of histories exactly as it was (nothing pruned,   *)
(* no entry created), so every later IsAllowed call decides and stores     *)
(* what it would have without the call.                                    *)
(***************************************************************************)
C14_RemainingReadOnly ==
    [][remaining' # remaining =>
          /\ requests' = requests
          /\ \A k \in Keys, t \in RemInstants :
                IsAllowed(requests', requestsPerMinute, k, t)
                  = IsAllowed(requests, requestsPerMinute, k, t)]_vars

\* GetRemainingRequests has just returned for a key whose stored history
\* holds a timestamp that left the window of the wall clock, and the history
\* is still stored whole.
C14_Witness ==
    /\ remaining.stage = "returned"
    /\ remaining.calls = Len(history)
    /\ remaining.wall = now
    /\ remaining.key \in DOMAIN requests
    /\ ValidCount(requests[remaining.key], now) < Len(requests[remaining.key])
    /\ Keys \ DOMAIN requests # {}

(***************************************************************************)
(* C15: GetRemainingRequests(k) called several times with no IsAllowed     *)
(* call in between returns the same value each time, also when real time   *)
(* advances between the calls.                                             *)
(***************************************************************************)
C15_RemainingIdempotent ==
    [][(/\ remaining.stage = "returned"
        /\ remaining'.stage = "returned"
        /\ remaining'.key = remaining.key
        /\ remaining'.calls = remaining.calls)
       => remaining'.value = remaining.value]_vars

C34_RemainingWithinBounds ==
    requestsPerMinute >= 1 =>
        /\ \A k \in DOMAIN requests : Len(requests[k]) <= requestsPerMinute
        /\ remaining.stage = "returned" =>
              /\ 0 <= remaining.value
              /\ remaining.value <= requestsPerMinute
              /\ remaining.calls = Len(history) =>
                    IF remaining.key \notin DOMAIN requests
                    THEN remaining.value = requestsPerMinute
                    ELSE (\A i \in 1..Len(requests[remaining.key]) :
                              requests[remaining.key][i] >= remaining.wall - Window)
                         => remaining.value
                              = requestsPerMinute - Len(requests[remaining.key])

\* Under limit 2, after two admissions and a denial for a key,
\* GetRemainingRequests returned 0 for it.
C34_Witness ==
    /\ requestsPerMinute = 2
    /\ remaining.stage = "returned"
    /\ remaining.calls = Len(history)
    /\ remaining.value = 0
    /\ Len(requests[remaining.key]) = 2
    /\ \E i \in 1..Len(history) :
          history[i].key = remaining.key /\ ~history[i].ok

(***************************************************************************)
(* SpecVal: one Validator receiving ValidateSample calls for samples of    *)
(* every combination of field values, while the clock advances and the     *)
(* error log may or may not be writable.                                   *)
(***************************************************************************)
ValidEmail == <<"a", "@", "b", ".", "c", "o">>
UpperEmail == <<"A", "@", "b", ".", "c", "o">>
NoAtEmail == <<"a", "b", ".", "c", "o">>
ShortTldEmail == <<"a", "@", "b", ".", "c">>
Emails == {ValidEmail, UpperEmail, NoAtEmail, ShortTldEmail, <<>>}

Samples ==
    [CustomerID : {"", "c1"}, Email : Emails, Name : {"", "n"},
     CreatedAt : {ZeroTime, 1000}, UpdatedAt : {ZeroTime, 999}]

InitVal == InitCommon /\ pc = NoGoroutines /\ loc = NoGoroutines

\* One call v.ValidateSample(sample).
ValidateSampleCall(sample, io) ==
    LET r == ValidateSample(TheValidator, sample, io, now)
    IN  /\ nrecords < MaxValidations
        /\ errorCount' = r.v.errorCount
        /\ errorLog' = r.v.errorLog
        /\ nrecords' = nrecords + 1
        /\ vcall' = [stage |-> "returned", arg |-> sample, err |-> r.err,
                     param |-> r.param, sample |-> r.sample, io |-> io,
                     countBefore |-> errorCount, logBefore |-> errorLog]
        /\ UNCHANGED <<requestsPerMinute, requests, mu, samples, now, history,
                       batch, idx, successCount, attempted, last, result,
                       remaining, pc, loc>>

\* A second passes on the wall clock.
Tick ==
    /\ now + 1 \in Clock
    /\ now' = now + 1
    /\ UNCHANGED <<requestsPerMinute, requests, mu, errorCount, errorLog, samples,
                   history, batch, idx, successCount, attempted, last, result,
                   nrecords, vcall, remaining, pc, loc>>

NextVal ==
    \/ \E sample \in Samples, io \in LogIO : ValidateSampleCall(sample, io)
    \/ Tick

SpecVal == InitVal /\ [][NextVal]_vars

\* The entries the last ValidateSample call appended to the error log.
Appended == SubSeq(errorLog, Len(vcall.logBefore) + 1, Len(errorLog))

(***************************************************************************)
(* C8: after every ValidateSample call exactly one of two outcomes holds:  *)
(* validated (nil returned, no entry appended, counter unchanged), or      *)
(* rejected with a logged reason (an error returned, exactly one entry     *)
(* appended, carrying the record's customer id and that reason, and the    *)
(* counter incremented by one).  No record is rejected without an entry.   *)
(***************************************************************************)
C8_ValidatedOrLogged ==
    vcall.stage = "returned" =>
        /\ SubSeq(errorLog, 1, Len(vcall.logBefore)) = vcall.logBefore
        /\ \/ /\ vcall.err = Nil
              /\ Appended = <<>>
              /\ errorCount = vcall.countBefore
           \/ /\ vcall.err # Nil
              /\ Len(Appended) = 1
              /\ Appended[1].customerId = vcall.arg.CustomerID
              /\ Appended[1].reason = vcall.err
              /\ errorCount = vcall.countBefore + 1

\* The rules of the validation contract, in their precedence.
RuleBroken(sample, i) ==
    CASE i = 1 -> sample.CustomerID = ""
      [] i = 2 -> ~isValidEmail(sample.Email)
      [] i = 3 -> sample.Name = ""
      [] i = 4 -> sample.CreatedAt = ZeroTime
RuleReason(i) ==
    CASE i = 1 -> "customer_id is required"
      [] i = 2 -> "invalid email format"
      [] i = 3 -> "name is required"
      [] i = 4 -> "created_at is required"
BrokenRules(sample) == {i \in 1..4 : RuleBroken(sample, i)}
EarliestBroken(sample) ==
    CHOOSE i \in BrokenRules(sample) : \A j \in BrokenRules(sample) : i <= j

(***************************************************************************)
(* C9: ValidateSample applies its rules in the order customer id empty,    *)
(* email invalid, name empty, creation timestamp zero, and the first       *)
(* failing rule wins: for a record that breaks one or more rules the error *)
(* returned is the reason of the earliest broken rule, no entry with       *)
(* another reason is logged, and no more than one entry is logged; a       *)
(* record that breaks no rule gets nil.                                    *)
(***************************************************************************)
C9_FirstFailingRuleWins ==
    vcall.stage = "returned" =>
        IF BrokenRules(vcall.arg) = {}
        THEN vcall.err = Nil /\ Appended = <<>>
        ELSE /\ vcall.err = RuleReason(EarliestBroken(vcall.arg))
             /\ Len(Appended) <= 1
             /\ \A i \in 1..Len(Appended) :
                    Appended[i].reason = RuleReason(EarliestBroken(vcall.arg))
             /\ vcall.io = "ok" => Len(Appended) = 1

\* A record breaking several rules was rejected and its one reason logged.
C9_Witness ==
    /\ vcall.stage = "returned"
    /\ Cardinality(BrokenRules(vcall.arg)) >= 3
    /\ EarliestBroken(vcall.arg) = 2
    /\ Len(Appended) = 1
    /\ Appended[1].reason = "invalid email format"

(***************************************************************************)
(* Spec: one SampleService (one Validator, one RateLimiter, one sink)      *)
(* whose caller runs ProcessSamplesFile call after call, sequentially.     *)
(***************************************************************************)
T0 == "2024-03-26T12:00:00Z"
T30 == "2024-03-26T17:30:30+05:30"
T61 == "2024-03-26T12:01:01Z"
TZero == "0001-01-01T00:00:00Z"
BadDate == "not-a-date"

CS(id, email, name, createdAt) ==
    [CustomerID |-> id, Email |-> email, Name |-> name, CreatedAt |-> createdAt]

\* The records of the batches: valid ones of two customers at three instants,
\* and records breaking one or several rules.
RawSamples ==
    { CS("c1", ValidEmail, "n", T0), CS("c1", ValidEmail, "n", T30),
      CS("c1", ValidEmail, "n", T61), CS("c2", ValidEmail, "n", T0),
      CS("c1", NoAtEmail, "n", T0), CS("", UpperEmail, "", T0),
      CS("c1", ValidEmail, "n", TZero), CS("c1", NoAtEmail, "n", BadDate) }

BatchesUpTo(len) == UNION {[1..m -> RawSamples] : m \in 0..len}

Service == [v |-> TheValidator, requests |-> requests, samples |-> samples]

Init == InitCommon /\ pc = [main |-> "idle"] /\ loc = NoGoroutines

\* ProcessSamplesFile logging its own failure through the Validator.
ProcessSamplesFileFailsLogging(why) ==
    /\ pc.main = "idle"
    /\ result' = [returned |-> TRUE, SuccessCount |-> 0, ErrorCount |-> 0,
                  err |-> why, len |-> 0, from |-> "ProcessSamplesFile"]
    /\ batch' = <<>> /\ idx' = 0 /\ successCount' = 0 /\ attempted' = <<>>
    /\ errorCount' = writeErrorLog(TheValidator, "", why, "ok", now).v.errorCount
    /\ errorLog' = writeErrorLog(TheValidator, "", why, "ok", now).v.errorLog
    /\ UNCHANGED <<requestsPerMinute, requests, mu, samples,
                   now, history, last, nrecords, vcall, remaining, pc, loc>>

\* ProcessSamplesFile(filepath) when the file cannot be opened or its JSON
\* cannot be decoded: ProcessResult{} and the error.
ProcessSamplesFileFails(why) ==
    /\ pc.main = "idle"
    /\ result' = [returned |-> TRUE, SuccessCount |-> 0, ErrorCount |-> 0,
                  err |-> why, len |-> 0, from |-> "ProcessSamplesFile"]
    /\ batch' = <<>> /\ idx' = 0 /\ successCount' = 0 /\ attempted' = <<>>
    /\ UNCHANGED <<requestsPerMinute, requests, mu, errorCount, errorLog, samples,
                   now, history, last, nrecords, vcall, remaining, pc, loc>>

\* ProcessSamples starting each batch with an empty rate limiter map.
ProcessSamplesBeginFresh(b) ==
    /\ pc.main = "idle"
    /\ batch' = b
    /\ idx' = 0
    /\ successCount' = 0
    /\ attempted' = <<>>
    /\ result' = NoResult
    /\ requests' = EmptyMap
    /\ pc' = [pc EXCEPT !.main = "loop"]
    /\ UNCHANGED <<requestsPerMinute, mu, errorCount, errorLog, samples,
                   now, history, last, nrecords, vcall, remaining, loc>>

\* ProcessSamplesFile(filepath) decoded the file into b and enters
\* ProcessSamples(b): successCount := 0.
ProcessSamplesBegin(b) ==
    /\ pc.main = "idle"
    /\ batch' = b
    /\ idx' = 0
    /\ successCount' = 0
    /\ attempted' = <<>>
    /\ result' = NoResult
    /\ pc' = [pc EXCEPT !.main = "loop"]
    /\ UNCHANGED <<requestsPerMinute, requests, mu, errorCount, errorLog, samples,
                   now, history, last, nrecords, vcall, remaining, loc>>

\* One iteration of the loop of ProcessSamples: s.ProcessSample(cs) for the
\* next record, from its entry to its return.
ProcessSampleStep(io, dbErr) ==
    /\ pc.main = "loop"
    /\ idx < Len(batch)
    /\ LET cs == batch[idx + 1]
           r == ProcessSample(Service, requestsPerMinute, cs, io, dbErr, now)
       IN  /\ errorCount' = r.st.v.errorCount
           /\ errorLog' = r.st.v.errorLog
           /\ requests' = r.st.requests
           /\ samples' = r.st.samples
           /\ history' = IF r.allowed = {} THEN history
                         ELSE Append(history,
                                     [key |-> cs.CustomerID,
                                      at |-> ParseTime(cs.CreatedAt).t,
                                      ok |-> TRUE \in r.allowed,
                                      wall |-> now])
           /\ successCount' = NextSuccessCount(successCount, r.err)
           /\ idx' = NextIndex(idx, r.err, Len(batch))
           /\ attempted' = Append(attempted, cs)
           /\ nrecords' = nrecords + 1
           /\ last' = [stage |-> "returned", cs |-> cs, err |-> r.err,
                       calls |-> r.calls,
                       before |-> [errorCount |-> errorCount, errorLog |-> errorLog,
                                   requests |-> requests, samples |-> samples,
                                   history |-> history]]
    /\ UNCHANGED <<requestsPerMinute, mu, now, batch, result, vcall, remaining,
                   pc, loc>>

\* The loop is over: ProcessSamples returns its ProcessResult and a nil error.
ProcessSamplesReturn ==
    /\ pc.main = "loop"
    /\ idx >= Len(batch)
    /\ result' = [returned |-> TRUE,
                  SuccessCount |-> ProcessResult(successCount, TheValidator).SuccessCount,
                  ErrorCount |-> ProcessResult(successCount, TheValidator).ErrorCount,
                  err |-> Nil, len |-> Len(batch), from |-> "ProcessSamples"]
    /\ pc' = [pc EXCEPT !.main = "idle"]
    /\ UNCHANGED <<requestsPerMinute, requests, mu, errorCount, errorLog, samples,
                   now, history, batch, idx, successCount, attempted, last,
                   nrecords, vcall, remaining, loc>>

Next ==
    \/ \E why \in {"error opening file", "error decoding JSON"} :
          ProcessSamplesFileFails(why)
    \/ \E b \in BatchesUpTo(MaxRecords - nrecords) : ProcessSamplesBegin(b)
    \/ \E io \in LogIO, dbErr \in InsertErrors : ProcessSampleStep(io, dbErr)
    \/ ProcessSamplesReturn
    \/ Tick

Spec == Init /\ [][Next]_vars

\* ghost readings of the last ProcessSample call
AllStages == <<"time.Parse", "ValidateSample", "IsAllowed", "InsertSample">>
StagesOf(calls) == SelectSeq(calls, LAMBDA c : c # "WriteErrorLog")
IsPrefix(s, t) == Len(s) <= Len(t) /\ s = SubSeq(t, 1, Len(s))
Member(x, s) == \E i \in 1..Len(s) : s[i] = x

(***************************************************************************)
(* C5: for every call of ProcessSamples the result satisfies SuccessCount  *)
(* + ErrorCount = number of records of the batch passed to that call.      *)
(* Stated for the runs in which every rejection so far reached the error   *)
(* log (records processed = samples inserted + entries logged).            *)
(***************************************************************************)
C5_CountsAddUp ==
    /\ result.returned
    /\ result.from = "ProcessSamples"
    /\ Len(samples) + Len(errorLog) = nrecords
    => result.SuccessCount + result.ErrorCount = result.len

(***************************************************************************)
(* C6: a record's failure never aborts the batch: ProcessSamples hands     *)
(* every record of the batch to ProcessSample, in input order, however     *)
(* many earlier records were rejected, and returns its result with a nil   *)
(* error.                                                                  *)
(***************************************************************************)
C6_EveryRecordAttempted ==
    /\ pc.main = "loop" => idx <= Len(batch) /\ attempted = SubSeq(batch, 1, idx)
    /\ result.returned /\ result.from = "ProcessSamples"
       => /\ attempted = batch
          /\ result.len = Len(batch)
          /\ result.err = Nil

\* A batch of two whose first record was rejected and whose second record was
\* persisted has returned.
C6_Witness ==
    /\ result.returned
    /\ result.from = "ProcessSamples"
    /\ Len(batch) = 2
    /\ attempted = batch
    /\ last.err = Nil
    /\ result.SuccessCount = 1
    /\ Len(errorLog) >= 1

(***************************************************************************)
(* C7: every record goes through the stages parse, ValidateSample,         *)
(* IsAllowed, InsertSample in this order, each gated by the one before:    *)
(* ValidateSample is called only when the timestamp parsed, IsAllowed only *)
(* when moreover the record breaks no validation rule, InsertSample only   *)
(* when moreover IsAllowed returned true; a record that failed a stage     *)
(* reaches no later stage and leaves the limiter and the sink untouched    *)
(* accordingly.                                                            *)
(***************************************************************************)
C7_StagesInOrder ==
    last.stage = "returned" =>
        LET cs == last.cs
            stages == StagesOf(last.calls)
            parsed == ParseTime(cs.CreatedAt).err = Nil
            valid == BrokenRules(NewSample(cs, ParseTime(cs.CreatedAt).t)) = {}
            checked == Len(history) = Len(last.before.history) + 1
            allowed == checked /\ history[Len(history)].ok
            inserted == Len(samples) = Len(last.before.samples) + 1
        IN  /\ IsPrefix(stages, AllStages)
            /\ Member("time.Parse", stages)
            /\ Member("ValidateSample", stages) <=> parsed
            /\ Member("IsAllowed", stages) <=> parsed /\ valid
            /\ Member("InsertSample", stages) <=> parsed /\ valid /\ allowed
            /\ checked <=> Member("IsAllowed", stages)
            /\ ~checked => history = last.before.history
                            /\ requests = last.before.requests
            /\ inserted => Member("InsertSample", stages)
            /\ ~inserted => samples = last.before.samples
            /\ inserted <=> last.err = Nil

\* A record was persisted after passing the three earlier stages, in a state
\* where an earlier record had been stopped at validation.
C7_Witness ==
    /\ last.stage = "returned"
    /\ StagesOf(last.calls) = AllStages
    /\ last.err = Nil
    /\ Len(samples) = 1
    /\ Len(errorLog) = 1
    /\ errorLog[1].reason = "invalid email format"

(***************************************************************************)
(* C10: when ValidateSample succeeds on a record whose UpdatedAt is unset, *)
(* UpdatedAt is set to the current time and the caller sees it: every      *)
(* sample the orchestrator passed on to InsertSample has a non-zero        *)
(* UpdatedAt.                                                              *)
(***************************************************************************)
C10_UpdatedAtVisible ==
    \A i \in 1..Len(samples) : ~IsZero(samples[i].UpdatedAt)

Min(a, b) == IF a <= b THEN a ELSE b
Parses(cs) == ParseTime(cs.CreatedAt).err = Nil
AsSample(cs) == NewSample(cs, ParseTime(cs.CreatedAt).t)
ValidRecord(cs) == Parses(cs) /\ BrokenRules(AsSample(cs)) = {}
OnlyEmailBroken(cs) == Parses(cs) /\ BrokenRules(AsSample(cs)) = {2}
Decisions == [i \in 1..Len(history) |-> history[i].ok]
Admitted == Len(SelectSeq(history, LAMBDA c : c.ok))
\* The returned call is the first to process records on this service, and
\* every InsertSample it made succeeded.
FirstBatchSinkOk ==
    /\ result.returned
    /\ result.from = "ProcessSamples"
    /\ nrecords = Len(batch)
    /\ Len(samples) = Admitted

(***************************************************************************)
(* C18: a batch of M valid records of one customer, with timestamps within *)
(* one 60-second span, processed sequentially on a fresh Validator and a   *)
(* fresh RateLimiter(N), N >= 1, with a sink that never fails, ends with   *)
(* SuccessCount = min(M, N) and ErrorCount = M - min(M, N), and every one  *)
(* of the failures is logged with reason "rate limit exceeded".            *)
(***************************************************************************)
C18_RateLimitedBatch ==
    (/\ FirstBatchSinkOk
     /\ requestsPerMinute >= 1
     /\ \A i \in 1..Len(batch) : ValidRecord(batch[i])
     /\ \A i \in 1..Len(batch), j \in 1..Len(batch) :
           /\ batch[i].CustomerID = batch[j].CustomerID
           /\ AsSample(batch[i]).CreatedAt - AsSample(batch[j]).CreatedAt <= Window)
    => LET M == Len(batch)
           N == requestsPerMinute
       IN  /\ result.SuccessCount = Min(M, N)
           /\ result.ErrorCount = M - Min(M, N)
           /\ Len(errorLog) = M - Min(M, N)
           /\ \A i \in 1..Len(errorLog) :
                 /\ errorLog[i].reason = "rate limit exceeded"
                 /\ errorLog[i].customerId = batch[1].CustomerID

(***************************************************************************)
(* C19: a batch processed sequentially on fresh instances, with a sink     *)
(* that never fails and no rate limit reached, in which some records have  *)
(* an email that fails the grammar and all other records are valid, ends   *)
(* with SuccessCount = number of valid records and ErrorCount = number of  *)
(* invalid records; exactly the valid records are in the sink, and the     *)
(* error log holds exactly one entry per invalid record, with that         *)
(* record's customer id and reason "invalid email format".                 *)
(***************************************************************************)
C19_InvalidEmailBatch ==
    (/\ FirstBatchSinkOk
     /\ \A i \in 1..Len(history) : history[i].ok
     /\ \A i \in 1..Len(batch) : ValidRecord(batch[i]) \/ OnlyEmailBroken(batch[i])
     /\ \E i \in 1..Len(batch) : OnlyEmailBroken(batch[i]))
    => LET valid == SelectSeq(batch, ValidRecord)
           invalid == SelectSeq(batch, OnlyEmailBroken)
       IN  /\ result.SuccessCount = Len(valid)
           /\ result.ErrorCount = Len(invalid)
           /\ Len(samples) = Len(valid)
           /\ \A i \in 1..Len(samples) :
                 /\ samples[i].CustomerID = valid[i].CustomerID
                 /\ samples[i].Email = valid[i].Email
                 /\ samples[i].Name = valid[i].Name
                 /\ samples[i].CreatedAt = AsSample(valid[i]).CreatedAt
           /\ Len(errorLog) = Len(invalid)
           /\ \A i \in 1..Len(errorLog) :
                 /\ errorLog[i].customerId = invalid[i].CustomerID
                 /\ errorLog[i].reason = "invalid email format"

\* The customer ids of the records of the model.
CustomerIDs == {cs.CustomerID : cs \in RawSamples}
InsertedOf(id) == SelectSeq(samples, LAMBDA x : x.CustomerID = id)

(***************************************************************************)
(* C21: each customer id is limited to N successful inserts (N = 5 in the  *)
(* worker; N >= 1 here): over a whole run, for every batch content, no     *)
(* more than N records of the same customer id are inserted into the sink. *)
(***************************************************************************)
C21_AtMostNInserts ==
    requestsPerMinute >= 1 =>
        \A id \in CustomerIDs : Len(InsertedOf(id)) <= requestsPerMinute

\* ghost readings of the last ProcessSample call: the entries it appended to
\* the error log, and whether it inserted into the sink.
LoggedByLast == SubSeq(errorLog, Len(last.before.errorLog) + 1, Len(errorLog))
InsertedByLast == Len(samples) = Len(last.before.samples) + 1

(***************************************************************************)
(* C26: when InsertSample fails for a record that passed parse, validation *)
(* and rate check, the record is rejected: ProcessSample returns the       *)
(* error, exactly one entry with reason "failed to insert: <underlying     *)
(* reason>" is appended to the error log, and the rejection counter is     *)
(* incremented by one.                                                     *)
(***************************************************************************)
C26_InsertFailureLogged ==
    (/\ last.stage = "returned"
     /\ Member("InsertSample", last.calls)
     /\ ~InsertedByLast)
    => /\ last.err = "connection refused"
       /\ Len(LoggedByLast) = 1
       /\ LoggedByLast[1].reason = "failed to insert: connection refused"
       /\ LoggedByLast[1].customerId = last.cs.CustomerID
       /\ errorCount = last.before.errorCount + 1

(***************************************************************************)
(* C27: a record whose creation-timestamp string does not parse is         *)
(* rejected at the parse stage without reaching ValidateSample, IsAllowed  *)
(* or InsertSample: also when its customer id, email or name is invalid,   *)
(* no entry other than the one with reason "invalid date format: <raw      *)
(* value>" is logged for it, and the rate limiter and the sink are         *)
(* unchanged.                                                              *)
(***************************************************************************)
C27_BadDateStopsAtParse ==
    last.stage = "returned" /\ last.cs.CreatedAt = BadDate
    => /\ last.err # Nil
       /\ StagesOf(last.calls) = <<"time.Parse">>
       /\ requests = last.before.requests
       /\ history = last.before.history
       /\ samples = last.before.samples
       /\ Len(LoggedByLast) <= 1
       /\ errorCount = last.before.errorCount + Len(LoggedByLast)
       /\ \A i \in 1..Len(LoggedByLast) :
             /\ LoggedByLast[i].reason = "invalid date format: " \o BadDate
             /\ LoggedByLast[i].customerId = last.cs.CustomerID

\* A record with an unparsable timestamp and an invalid email was rejected
\* and its one entry logged, on a service whose limiter holds a history.
C27_Witness ==
    /\ last.stage = "returned"
    /\ last.cs.CreatedAt = BadDate
    /\ ~isValidEmail(last.cs.Email)
    /\ Len(LoggedByLast) = 1
    /\ LoggedByLast[1].reason = "invalid date format: not-a-date"
    /\ DOMAIN requests # {}

(***************************************************************************)
(* C28: no double logging: in sequential processing every rejected record, *)
(* whatever stage rejected it, produces exactly one error-log entry and    *)
(* exactly one increment of the rejection counter, and every persisted     *)
(* record produces none.                                                   *)
(***************************************************************************)
C28_OneEntryPerRejection ==
    last.stage = "returned" =>
        IF last.err = Nil
        THEN LoggedByLast = <<>> /\ errorCount = last.before.errorCount
        ELSE Len(LoggedByLast) = 1 /\ errorCount = last.before.errorCount + 1

C32_EarlyRejectionNoQuota ==
    last.stage = "returned" /\ ~ValidRecord(last.cs)
    => /\ last.err # Nil
       /\ requests = last.before.requests
       /\ history = last.before.history

\* Under limit 1 a record of c1 with an invalid email was rejected and logged,
\* and the next record, a valid one of c1, was admitted and persisted.
C32_Witness ==
    /\ requestsPerMinute = 1
    /\ nrecords = 2
    /\ Len(errorLog) = 1
    /\ errorLog[1].reason = "invalid email format"
    /\ errorLog[1].customerId = "c1"
    /\ last.stage = "returned"
    /\ last.cs.CustomerID = "c1"
    /\ last.err = Nil
    /\ history = <<[key |-> "c1", at |-> 1000, ok |-> TRUE, wall |-> history[1].wall]>>
    /\ Len(samples) = 1

(***************************************************************************)
(* C33: a rate-limit admission is not rolled back when persistence fails:  *)
(* when IsAllowed admitted a record and InsertSample then fails, the       *)
(* record's timestamp stays in the history of its key, so a record that    *)
(* was never persisted still counts against the limit.                     *)
(***************************************************************************)
C33_AdmissionNotRolledBack ==
    (/\ last.stage = "returned"
     /\ Member("InsertSample", last.calls)
     /\ ~InsertedByLast)
    => LET k == last.cs.CustomerID
           at == AsSample(last.cs).CreatedAt
       IN  /\ samples = last.before.samples
           /\ requests = IsAllowed(last.before.requests, requestsPerMinute, k, at).requests
           /\ requests[k] # <<>>
           /\ requests[k][Len(requests[k])] = at
           /\ Len(history) = Len(last.before.history) + 1
           /\ history[Len(history)].ok

\* Under limit 1 the insert of a valid record failed, and the next record of
\* the same customer and timestamp was denied as rate limited: nothing of
\* the customer is in the sink.
C33_Witness ==
    /\ requestsPerMinute = 1
    /\ nrecords = 2
    /\ Len(history) = 2
    /\ history[1].key = history[2].key
    /\ history[1].at = history[2].at
    /\ history[1].ok
    /\ ~history[2].ok
    /\ last.err = "rate limit exceeded"
    /\ samples = <<>>

(***************************************************************************)
(* SpecConc: goroutines sharing one SampleService, each inside its own     *)
(* ProcessSamples call (as in TestConcurrentProcessing).  ProcessSample is *)
(* taken statement by statement: pc[w] is the statement goroutine w is at, *)
(* loc[w] holds its locals.  IsAllowed runs between r.mu.Lock() and the    *)
(* deferred r.mu.Unlock(); writeErrorLog takes no lock, and v.errorCount++ *)
(* is a read followed by a write.                                          *)
(***************************************************************************)
Workers == {"w1", "w2"}

ConcSamples ==
    { CS("c1", ValidEmail, "n", T0), CS("c1", ValidEmail, "n", T61),
      CS("c1", NoAtEmail, "n", T0), CS("c1", ValidEmail, "n", BadDate) }

seqVars == <<now, batch, idx, successCount, attempted, last, result, nrecords, vcall, remaining>>

NoLocals ==
    [cs |-> CS("", <<>>, "", ""), sample |-> NewSample(CS("", <<>>, "", ""), ZeroTime),
     err |-> Nil, ok |-> FALSE, validRequests |-> <<>>, snap |-> EmptyMap,
     reason |-> "", tmp |-> 0, done |-> 0, successCount |-> 0, errorCount |-> 0]

InitConc ==
    /\ InitCommon
    /\ pc = [w \in Workers |-> "loop"]
    /\ loc = [w \in Workers |-> NoLocals]

Goto(w, label) == pc' = [pc EXCEPT ![w] = label]
SetLoc(w, l) == loc' = [loc EXCEPT ![w] = l]

\* for _, cs := range samples: the next record, or the end of the batch.
LoopNext(w, cs) ==
    /\ pc[w] = "loop"
    /\ loc[w].done < MaxPerWorker
    /\ SetLoc(w, [loc[w] EXCEPT !.cs = cs])
    /\ Goto(w, "parse")
    /\ UNCHANGED <<requestsPerMinute, requests, mu, errorCount, errorLog, samples,
                   history, seqVars>>

\* createdAt, err := time.Parse(time.RFC3339, cs.CreatedAt)
ParseStmt(w) ==
    /\ pc[w] = "parse"
    /\ LET parsed == ParseTime(loc[w].cs.CreatedAt)
       IN  IF parsed.err # Nil
           THEN /\ SetLoc(w, [loc[w] EXCEPT !.err = parsed.err,
                                  !.reason = "invalid date format: " \o loc[w].cs.CreatedAt])
                /\ Goto(w, "log_open")
           ELSE /\ SetLoc(w, [loc[w] EXCEPT !.sample = NewSample(loc[w].cs, parsed.t)])
                /\ Goto(w, "validate")
    /\ UNCHANGED <<requestsPerMinute, requests, mu, errorCount, errorLog, samples,
                   history, seqVars>>

\* s.validator.ValidateSample(sample), up to its call of writeErrorLog.
ValidateStmt(w) ==
    /\ pc[w] = "validate"
    /\ LET reason == ValidationReason(loc[w].sample)
       IN  IF reason # Nil
           THEN /\ SetLoc(w, [loc[w] EXCEPT !.err = reason, !.reason = reason])
                /\ Goto(w, "log_open")
           ELSE /\ Goto(w, "lock")
                /\ UNCHANGED loc
    /\ UNCHANGED <<requestsPerMinute, requests, mu, errorCount, errorLog, samples,
                   history, seqVars>>

\* r.mu.Lock() taken without waiting for the holder.
RLLockNoWait(w) ==
    /\ pc[w] = "lock"
    /\ mu' = w
    /\ SetLoc(w, [loc[w] EXCEPT !.snap = requests])
    /\ Goto(w, "exists")
    /\ UNCHANGED <<requestsPerMinute, requests, errorCount, errorLog, samples,
                   history, seqVars>>

\* r.mu.Lock() at the entry of IsAllowed.
RLLock(w) ==
    /\ pc[w] = "lock"
    /\ mu = NoOwner
    /\ mu' = w
    /\ SetLoc(w, [loc[w] EXCEPT !.snap = requests])
    /\ Goto(w, "exists")
    /\ UNCHANGED <<requestsPerMinute, requests, errorCount, errorLog, samples,
                   history, seqVars>>

\* if _, exists := r.requests[customerID]; !exists
RLExists(w) ==
    /\ pc[w] = "exists"
    /\ IF loc[w].sample.CustomerID \notin DOMAIN requests
       THEN Goto(w, "init")
       ELSE Goto(w, "filter")
    /\ UNCHANGED <<requestsPerMinute, requests, mu, errorCount, errorLog, samples,
                   history, seqVars, loc>>

\* r.requests[customerID] = []time.Time{createdAt}; return true
RLInit(w) ==
    /\ pc[w] = "init"
    /\ requests' = MapPut(requests, loc[w].sample.CustomerID, <<loc[w].sample.CreatedAt>>)
    /\ SetLoc(w, [loc[w] EXCEPT !.ok = TRUE])
    /\ Goto(w, "unlock")
    /\ UNCHANGED <<requestsPerMinute, mu, errorCount, errorLog, samples,
                   history, seqVars>>

\* The loop building validRequests from r.requests[customerID].
RLFilter(w) ==
    /\ pc[w] = "filter"
    /\ SetLoc(w, [loc[w] EXCEPT !.validRequests =
                      ValidRequests(requests[loc[w].sample.CustomerID],
                                    loc[w].sample.CreatedAt)])
    /\ Goto(w, "store")
    /\ UNCHANGED <<requestsPerMinute, requests, mu, errorCount, errorLog, samples,
                   history, seqVars>>

\* r.requests[customerID] = validRequests
RLStore(w) ==
    /\ pc[w] = "store"
    /\ requests' = MapPut(requests, loc[w].sample.CustomerID, loc[w].validRequests)
    /\ Goto(w, "check")
    /\ UNCHANGED <<requestsPerMinute, mu, errorCount, errorLog, samples,
                   history, seqVars, loc>>

\* if len(validRequests) < r.requestsPerMinute { append; return true }; return false
RLCheck(w) ==
    /\ pc[w] = "check"
    /\ IF Len(loc[w].validRequests) < requestsPerMinute
       THEN /\ requests' = MapPut(requests, loc[w].sample.CustomerID,
                                  Append(requests[loc[w].sample.CustomerID],
                                         loc[w].sample.CreatedAt))
            /\ SetLoc(w, [loc[w] EXCEPT !.ok = TRUE])
       ELSE /\ SetLoc(w, [loc[w] EXCEPT !.ok = FALSE])
            /\ UNCHANGED requests
    /\ Goto(w, "unlock")
    /\ UNCHANGED <<requestsPerMinute, mu, errorCount, errorLog, samples,
                   history, seqVars>>

\* IsAllowed returning without the deferred r.mu.Unlock().
RLUnlockKeepsLock(w) ==
    /\ pc[w] = "unlock"
    /\ mu' = mu
    /\ history' = Append(history, [key |-> loc[w].sample.CustomerID,
                                   at |-> loc[w].sample.CreatedAt, ok |-> loc[w].ok,
                                   wall |-> now])
    /\ IF loc[w].ok
       THEN /\ Goto(w, "insert")
            /\ SetLoc(w, [loc[w] EXCEPT !.validRequests = <<>>, !.snap = EmptyMap])
       ELSE /\ Goto(w, "log_open")
            /\ SetLoc(w, [loc[w] EXCEPT !.validRequests = <<>>, !.snap = EmptyMap,
                                        !.err = "rate limit exceeded",
                                        !.reason = "rate limit exceeded"])
    /\ UNCHANGED <<requestsPerMinute, requests, errorCount, errorLog, samples, seqVars>>

\* The deferred r.mu.Unlock(), and ProcessSample's branch on the decision.
RLUnlock(w) ==
    /\ pc[w] = "unlock"
    /\ mu' = NoOwner
    /\ history' = Append(history, [key |-> loc[w].sample.CustomerID,
                                   at |-> loc[w].sample.CreatedAt, ok |-> loc[w].ok,
                                   wall |-> now])
    /\ IF loc[w].ok
       THEN /\ Goto(w, "insert")
            /\ SetLoc(w, [loc[w] EXCEPT !.validRequests = <<>>, !.snap = EmptyMap])
       ELSE /\ Goto(w, "log_open")
            /\ SetLoc(w, [loc[w] EXCEPT !.validRequests = <<>>, !.snap = EmptyMap,
                                        !.err = "rate limit exceeded",
                                        !.reason = "rate limit exceeded"])
    /\ UNCHANGED <<requestsPerMinute, requests, errorCount, errorLog, samples, seqVars>>

\* s.db.InsertSample(sample)
InsertStmt(w, dbErr) ==
    /\ pc[w] = "insert"
    /\ IF dbErr = Nil
       THEN /\ samples' = Append(samples, loc[w].sample)
            /\ Goto(w, "return")
            /\ UNCHANGED loc
       ELSE /\ SetLoc(w, [loc[w] EXCEPT !.err = dbErr,
                                        !.reason = "failed to insert: " \o dbErr])
            /\ Goto(w, "log_open")
            /\ UNCHANGED samples
    /\ UNCHANGED <<requestsPerMinute, requests, mu, errorCount, errorLog,
                   history, seqVars>>

\* writeErrorLog: os.OpenFile("error.log", O_APPEND|O_CREATE|O_WRONLY)
LogOpen(w, opened) ==
    /\ pc[w] = "log_open"
    /\ IF opened THEN Goto(w, "log_write") ELSE Goto(w, "return")
    /\ UNCHANGED <<requestsPerMinute, requests, mu, errorCount, errorLog, samples,
                   history, seqVars, loc>>

\* writeErrorLog going on to v.errorCount++ when the write failed.
LogWriteAlwaysCounts(w, written) ==
    /\ pc[w] = "log_write"
    /\ IF written
       THEN errorLog' = Append(errorLog,
                               ErrorEntry(loc[w].cs.CustomerID, loc[w].reason, now))
       ELSE UNCHANGED errorLog
    /\ Goto(w, "count_read")
    /\ UNCHANGED <<requestsPerMinute, requests, mu, errorCount, samples,
                   history, seqVars, loc>>

\* writeErrorLog: file.WriteString(errorLog), one append to the file
LogWrite(w, written) ==
    /\ pc[w] = "log_write"
    /\ IF written
       THEN /\ errorLog' = Append(errorLog,
                                  ErrorEntry(loc[w].cs.CustomerID, loc[w].reason, now))
            /\ Goto(w, "count_read")
       ELSE /\ Goto(w, "return")
            /\ UNCHANGED errorLog
    /\ UNCHANGED <<requestsPerMinute, requests, mu, errorCount, samples,
                   history, seqVars, loc>>

\* v.errorCount++ : the read
CountRead(w) ==
    /\ pc[w] = "count_read"
    /\ SetLoc(w, [loc[w] EXCEPT !.tmp = errorCount])
    /\ Goto(w, "count_write")
    /\ UNCHANGED <<requestsPerMinute, requests, mu, errorCount, errorLog, samples,
                   history, seqVars>>

\* v.errorCount++ : the write
CountWrite(w) ==
    /\ pc[w] = "count_write"
    /\ errorCount' = loc[w].tmp + 1
    /\ SetLoc(w, [loc[w] EXCEPT !.tmp = 0])
    /\ Goto(w, "return")
    /\ UNCHANGED <<requestsPerMinute, requests, mu, errorLog, samples,
                   history, seqVars>>

\* ProcessSample returns err; the loop counts a success when err == nil.
ReturnStmt(w) ==
    /\ pc[w] = "return"
    /\ SetLoc(w, [NoLocals EXCEPT
                      !.done = loc[w].done + 1,
                      !.successCount = NextSuccessCount(loc[w].successCount, loc[w].err)])
    /\ Goto(w, "loop")
    /\ UNCHANGED <<requestsPerMinute, requests, mu, errorCount, errorLog, samples,
                   history, seqVars>>

\* The batch is through: ProcessSamples reads the Validator's counter and returns.
LoopEnd(w) ==
    /\ pc[w] = "loop"
    /\ loc[w].done >= MaxPerWorker
    /\ SetLoc(w, [loc[w] EXCEPT !.errorCount = errorCount])
    /\ Goto(w, "done")
    /\ UNCHANGED <<requestsPerMinute, requests, mu, errorCount, errorLog, samples,
                   history, seqVars>>

\* The statements goroutine w may execute.
WorkerStep(w) ==
    \/ \E cs \in ConcSamples : LoopNext(w, cs)
    \/ ParseStmt(w)
    \/ ValidateStmt(w)
    \/ RLLock(w)
    \/ RLExists(w)
    \/ RLInit(w)
    \/ RLFilter(w)
    \/ RLStore(w)
    \/ RLCheck(w)
    \/ RLUnlock(w)
    \/ \E dbErr \in InsertErrors : InsertStmt(w, dbErr)
    \/ \E opened \in BOOLEAN : LogOpen(w, opened)
    \/ \E written \in BOOLEAN : LogWrite(w, written)
    \/ CountRead(w)
    \/ CountWrite(w)
    \/ ReturnStmt(w)
    \/ LoopEnd(w)

NextConc == \E w \in Workers : WorkerStep(w)

SpecConc == InitConc /\ [][NextConc]_vars

\* The goroutines of SpecConc on a RateLimiter of limit 1, under which two
\* records of one customer meet both decisions of IsAllowed.
InitFairConc == InitConc /\ requestsPerMinute = 1

\* The goroutines under the Go scheduler: a goroutine that can run is not left
\* waiting forever, and a goroutine blocked in r.mu.Lock() gets the lock once
\* it stays free.
FairSpecConc ==
    InitFairConc /\ [][NextConc]_vars /\ \A w \in Workers : WF_vars(WorkerStep(w))

InIsAllowed(w) == pc[w] \in {"exists", "init", "filter", "store", "check", "unlock"}

(***************************************************************************)
(* C3: under every interleaving of concurrent IsAllowed calls the          *)
(* prune-then-append of each call is atomic: no two goroutines are inside  *)
(* IsAllowed together; when a call is about to return, its decision and    *)
(* the map are exactly what IsAllowed alone makes of the map the call      *)
(* found at entry; so no two calls are both admitted on the same count,    *)
(* and no history grows past the limit (past one entry for limit 0).       *)
(***************************************************************************)
C3_IsAllowedAtomic ==
    /\ \A w1 \in Workers, w2 \in Workers :
          InIsAllowed(w1) /\ InIsAllowed(w2) => w1 = w2
    /\ \A w \in Workers :
          /\ InIsAllowed(w) => mu = w
          /\ pc[w] = "unlock" =>
                [ok |-> loc[w].ok, requests |-> requests]
                  = IsAllowed(loc[w].snap, requestsPerMinute,
                              loc[w].sample.CustomerID, loc[w].sample.CreatedAt)
    /\ \A k \in DOMAIN requests : Len(requests[k]) <= Max(requestsPerMinute, 1)

\* One goroutine is about to return from IsAllowed, admitted, while another
\* waits at the lock with a record of the same customer.
C3_Witness ==
    \E w1 \in Workers, w2 \in Workers :
        /\ w1 # w2
        /\ pc[w1] = "unlock"
        /\ loc[w1].ok
        /\ pc[w2] = "lock"
        /\ loc[w2].sample.CustomerID = loc[w1].sample.CustomerID

(***************************************************************************)
(* C4: when several goroutines share one Validator, the append to the      *)
(* error log and the increment of the rejection counter are atomic as a    *)
(* pair: once all goroutines have finished, under every interleaving,      *)
(* GetErrorCount() equals the number of entries appended to the error log. *)
(***************************************************************************)
C4_CountEqualsLogged ==
    (\A w \in Workers : pc[w] = "done") => errorCount = Len(errorLog)

(***************************************************************************)
(* SpecLog: goroutines calling WriteErrorLog on one shared Validator, as   *)
(* the three goroutines of TestConcurrentProcessing do through             *)
(* ProcessSample.  The statements of writeErrorLog are those of SpecConc.  *)
(***************************************************************************)
Loggers == {"g1", "g2", "g3"}

\* Number of WriteErrorLog calls each goroutine of SpecLog makes.
MaxLogCalls == 1

InitLog ==
    /\ InitCommon
    /\ pc = [w \in Loggers |-> "idle"]
    /\ loc = [w \in Loggers |-> NoLocals]

\* v.WriteErrorLog(customerID, reason): the entry into writeErrorLog.
WriteErrorLogCall(w, customerID, reason) ==
    /\ pc[w] = "idle"
    /\ loc[w].done < MaxLogCalls
    /\ SetLoc(w, [loc[w] EXCEPT !.cs = CS(customerID, <<>>, "", ""),
                                !.reason = reason])
    /\ Goto(w, "log_open")
    /\ UNCHANGED <<requestsPerMinute, requests, mu, errorCount, errorLog, samples,
                   history, seqVars>>

\* writeErrorLog returns to the caller of WriteErrorLog.
WriteErrorLogReturn(w) ==
    /\ pc[w] = "return"
    /\ SetLoc(w, [NoLocals EXCEPT !.done = loc[w].done + 1])
    /\ Goto(w, "idle")
    /\ UNCHANGED <<requestsPerMinute, requests, mu, errorCount, errorLog, samples,
                   history, seqVars>>

NextLog ==
    \E w \in Loggers :
        \/ \E k \in Keys : WriteErrorLogCall(w, k, "rate limit exceeded")
        \/ \E opened \in BOOLEAN : LogOpen(w, opened)
        \/ \E written \in BOOLEAN : LogWrite(w, written)
        \/ CountRead(w)
        \/ CountWrite(w)
        \/ WriteErrorLogReturn(w)

SpecLog == InitLog /\ [][NextLog]_vars

(***************************************************************************)
(* C11: the rejection counter of one Validator is monotonically            *)
(* non-decreasing and never reset: in every execution, also when           *)
(* concurrent goroutines call writeErrorLog on the same Validator, no step *)
(* makes errorCount smaller than it was.                                   *)
(***************************************************************************)
C11_CountNeverDecreases == [][errorCount' >= errorCount]_vars

\* ghost readings of the goroutines' ProcessSamples calls
AllDone == \A w \in Workers : pc[w] = "done"
RECURSIVE SuccessesOf(_)
SuccessesOf(ws) ==
    IF ws = {} THEN 0
    ELSE LET w == CHOOSE x \in ws : TRUE
         IN  loc[w].successCount + SuccessesOf(ws \ {w})

(***************************************************************************)
(* C31: every batch is processed to completion: under fair scheduling of   *)
(* the goroutines every ProcessSamples call eventually returns, and then   *)
(* every record of its batch has left ProcessSample exactly once, either   *)
(* Persisted (nil returned, the record in the sink, counted a success) or  *)
(* Rejected (an error returned, the record not in the sink).               *)
(***************************************************************************)
C31_BatchCompletes ==
    /\ <>AllDone
    /\ [](AllDone =>
            /\ \A w \in Workers :
                  /\ loc[w].done = MaxPerWorker
                  /\ loc[w].successCount <= loc[w].done
            /\ SuccessesOf(Workers) = Len(samples)
            /\ mu = NoOwner)

\* Both goroutines have returned, one record persisted and one rejected.
C31_Witness ==
    /\ AllDone
    /\ Len(samples) = 1
    /\ SuccessesOf(Workers) = 1
    /\ Len(errorLog) = 1

(***************************************************************************)
(* C35: the rejection counter never runs ahead of the log: in every        *)
(* reachable state, also when opening or writing the error log fails and   *)
(* when the writeErrorLog calls of several goroutines interleave,          *)
(* errorCount <= number of entries appended to the error log; a rejection  *)
(* whose append failed is counted neither as a success nor as a failure.   *)
(***************************************************************************)
C35_CountNotAheadOfLog ==
    /\ errorCount <= Len(errorLog)
    /\ SuccessesOf(Workers) <= Len(samples)
    /\ AllDone => SuccessesOf(Workers) = Len(samples)

\* Both goroutines have returned with their records rejected; one append
\* failed, the other succeeded and was counted.
C35_Witness ==
    /\ AllDone
    /\ samples = <<>>
    /\ SuccessesOf(Workers) = 0
    /\ Len(errorLog) = 1
    /\ errorCount = 1

====
